---- MODULE Spec2Model ----
(***************************************************************************)
(* Unification driver of the speaker standardization pipeline              *)
(* (src/temp_clone/src/standardization/main.py): source adapters, the      *)
(* identity index (build_dedupe_index), the deduplicator (find_duplicate)  *)
(* and run(), which queues upserts/updates and flushes them to the         *)
(* unified collection with unordered bulk writes; and the utilities        *)
(* parse_location and norm_topics, called by the adapters and directly.    *)
(* Then the rewrite of the unified collection by                           *)
(* analysis/merge_categories_to_topics.py, and the sessions of the         *)
(* speaker-details scraper (src/speakerhub_camoufox/                       *)
(* speaker_details_scraper), which resumes from a saved state.             *)
(***************************************************************************)
EXTENDS Integers, Sequences, FiniteSets, TLC

(***************************************************************************)
(* Bounds of the model.                                                    *)
(***************************************************************************)
\* number of bulk writes that fail
MaxFails == 1
\* length of a topic string given to norm_topics
MaxTopicLen == 3
\* length of a topic list given to norm_topics
MaxTopics == 1
\* length of a location string given to parse_location
MaxLocLen == 5
\* number of source documents over all source collections
MaxDocs == 2
\* number of times run() is started (a restart after a kill is a start)
MaxRuns == 2
\* number of times the process is killed
MaxKills == 1
\* len(bulk_ops) at which run() flushes (1000 in the code, scaled down)
BatchSize == 2
\* number of speakers of the scraper's source collection
MaxSpeakers == 3
\* number of sessions of the speaker-details scraper
MaxSessions == 2
\* number of sessions interrupted by the user
MaxInterrupts == 1
\* SCRAPER_CONFIG['batch_size'] (10 in the code, scaled down)
batch_size == 2
\* SCRAPER_CONFIG['save_state_every'] (5 in the code, scaled down)
save_state_every == 2

VARIABLES
    docs,        \* the source documents, in the order run() reads them
    unified,     \* the collection unified_speakers_v3, in natural order
    dedupe_idx,  \* fingerprint -> list of [id, city]
    bulk_ops,    \* the queued operations
    pending,     \* positions of bulk_ops a bulk_write in progress has not executed
    total_in, total_upd, total_new,
    pc,          \* "idle", "loop", "flush", "final", "done"
    i,           \* position in docs of the next document
    runs,        \* number of run() calls started
    kills,       \* number of times the process was killed
    prev,        \* unified when the current run() call started
    prevDone,    \* TRUE when the previous run() call ran to its end
    serial,      \* unified had every queued operation been executed at once
    last,        \* what the loop body did with the latest document
    topic_map,   \* TOPIC_MAP, loaded from config/topic_mapping.json at import
    arg,         \* the argument of a direct call of a utility
    ret,         \* what the call returned
    queued,      \* the operations appended to bulk_ops since run() started
    sent,        \* the operations handed to bulk_write since run() started
    fails,       \* number of bulk writes that failed
    source_collection,   \* the uids of the scraper's source collection
    details_collection,  \* uid -> scraping_status ("none" without a record)
    resume_collection,   \* the saved state of the session id, if any
    processed_count, success_count, error_count,
    speakers,    \* what get_speakers_to_scrape returned to run()
    batch,       \* the scraped speakers not yet saved
    idx,         \* number of entries of speakers behind the loop
    spc,         \* "idle", "process", "finished"
    sessions,    \* number of sessions started
    interrupts,  \* number of sessions interrupted
    todo,        \* the uids not completed when the session started
    processed,   \* the uids the session has processed
    restored     \* TRUE when the session restored a saved state

(***************************************************************************)
(* Python values.  None is a distinguished string; a dict is a record      *)
(* with the tag py = "dict" next to its keys, so {} is [py |-> "dict"];    *)
(* a value that may be a dict or None is NoneObj when it is None.          *)
(***************************************************************************)
None == "None"

NoneObj == [py |-> "None"]

EmptyDict == [py |-> "dict"]

\* d.get(k) of a dict
Get(d, k) == IF k \in DOMAIN d THEN d[k] ELSE None

\* the characters of the strings used as names and cities
Chars(s) ==
    CASE s = "ab"     -> <<"a", "b">>
      [] s = "a b"    -> <<"a", " ", "b">>
      [] s = "12"     -> <<"1", "2">>
      [] s = "Austin" -> <<"A", "u", "s", "t", "i", "n">>
      [] s = "austin" -> <<"a", "u", "s", "t", "i", "n">>
      [] s = "Reno"   -> <<"R", "e", "n", "o">>
      [] s = "USA"    -> <<"U", "S", "A">>
      [] s = "CEO"    -> <<"C", "E", "O">>
      [] s = "Jane A. Doe" -> <<"J", "a", "n", "e", " ", "A", ".", " ", "D", "o", "e">>
      [] s = "Jane Doe"    -> <<"J", "a", "n", "e", " ", "D", "o", "e">>
      [] s = "Jane doe"    -> <<"J", "a", "n", "e", " ", "d", "o", "e">>

LowerCaseLetters ==
    {"a", "b", "c", "d", "e", "f", "g", "h", "i", "j", "k", "l", "m",
     "n", "o", "p", "q", "r", "s", "t", "u", "v", "w", "x", "y", "z"}

\* str.lower() on one character
LowerChar(c) ==
    CASE c = "A" -> "a"
      [] c = "R" -> "r"
      [] c = "U" -> "u"
      [] c = "S" -> "s"
      [] c = "C" -> "c"
      [] c = "E" -> "e"
      [] c = "O" -> "o"
      [] c = "J" -> "j"
      [] c = "D" -> "d"
      [] OTHER   -> c

\* str.lower()
Lower(s) == [k \in 1..Len(Chars(s)) |-> LowerChar(Chars(s)[k])]

(***************************************************************************)
(* 1. Utilities                                                            *)
(***************************************************************************)
\* sha_id that digests a value which differs from one run() call to the next
sha_id_per_run(tag, nid) == <<tag, nid, runs>>

\* sha_id("<tag>|" + native id): the digest is modelled by the pair it hashes
sha_id(tag, nid) == <<tag, nid>>

\* parse_location on a location string, given as its comma-separated parts
\* already stripped (<<>> is the absent / empty string)
parse_location(parts) ==
    IF parts = <<>> THEN EmptyDict
    ELSE [py |-> "dict",
          city |-> IF Len(parts) \in {2, 3} THEN parts[1] ELSE None,
          state |-> IF Len(parts) = 3 THEN parts[2] ELSE None,
          country |-> IF Len(parts) = 3 THEN parts[3]
                      ELSE IF Len(parts) = 2 THEN parts[2] ELSE parts[1],
          full_location |-> parts,
          timezone |-> None]

(***************************************************************************)
(* Strings given character by character (a sequence of one-character       *)
(* strings), for the utilities that look inside a string.                  *)
(***************************************************************************)
\* the characters matched by \s and removed by str.strip()
Whitespace == {" ", "\t"}

RECURSIVE LStrip(_)
\* str.lstrip()
LStrip(s) ==
    IF s # <<>> /\ Head(s) \in Whitespace THEN LStrip(Tail(s)) ELSE s

RECURSIVE RStrip(_)
\* str.rstrip()
RStrip(s) ==
    IF s # <<>> /\ s[Len(s)] \in Whitespace
    THEN RStrip(SubSeq(s, 1, Len(s) - 1)) ELSE s

\* str.strip() that removes nothing
StripNothing(s) == s

\* str.strip()
Strip(s) == RStrip(LStrip(s))

RECURSIVE Collapse(_)
\* re.sub(r"\s+", " ", t): every run of whitespace becomes one space
Collapse(s) ==
    IF s = <<>> THEN <<>>
    ELSE IF Head(s) \in Whitespace THEN <<" ">> \o Collapse(LStrip(s))
    ELSE <<Head(s)>> \o Collapse(Tail(s))

RECURSIVE Split(_)
\* loc.split(",")
Split(s) ==
    IF \E k \in 1..Len(s) : s[k] = ","
    THEN LET k == CHOOSE m \in 1..Len(s) :
                      s[m] = "," /\ \A n \in 1..(m - 1) : s[n] # ","
         IN <<SubSeq(s, 1, k - 1)>> \o Split(SubSeq(s, k + 1, Len(s)))
    ELSE <<s>>

\* parse_location on a location string: "if not loc: return {}", then the
\* parts of the split, each stripped, and the string itself as full_location
parse_location_str(loc) ==
    IF loc = <<>> THEN EmptyDict
    ELSE LET split == Split(loc)
             parts == [k \in 1..Len(split) |-> Strip(split[k])]
         IN [parse_location(parts) EXCEPT !.full_location = loc]

\* the keys of a location dict, in the order the document holds them
LocKeys == <<"city", "state", "state_province", "country", "timezone">>

RECURSIVE JoinValues(_, _)
\* ", ".join([v for v in loc.values() if v]), from the k-th key on; the
\* values of a location dict are strings that are not empty
JoinValues(loc, k) ==
    IF k > Len(LocKeys) THEN <<>>
    ELSE IF LocKeys[k] \notin DOMAIN loc THEN JoinValues(loc, k + 1)
    ELSE LET rest == JoinValues(loc, k + 1)
         IN IF rest = <<>> THEN loc[LocKeys[k]]
            ELSE loc[LocKeys[k]] \o <<",", " ">> \o rest

\* parse_location on None or on a dict: "if not loc: return {}", then the
\* isinstance(loc, dict) branch
parse_location_object(loc) ==
    IF loc.py = "None" \/ DOMAIN loc = {"py"} THEN EmptyDict
    ELSE [py |-> "dict",
          city |-> Get(loc, "city"),
          state |-> IF "state" \in DOMAIN loc THEN loc.state
                    ELSE Get(loc, "state_province"),
          country |-> Get(loc, "country"),
          full_location |-> JoinValues(loc, 1),
          timezone |-> Get(loc, "timezone")]

\* REV_TOPIC_MAP = {raw: tgt for tgt, v in TOPIC_MAP.items() for raw in v}:
\* a variant listed under several topics keeps the last of them.  topic_map
\* is the object of the mapping file as the sequence of its members
\* [target, variants]
REV_TOPIC_MAP ==
    LET lists(k) == {topic_map[k].variants[m] :
                        m \in 1..Len(topic_map[k].variants)}
        raws == UNION {lists(k) : k \in 1..Len(topic_map)}
        at(raw) == CHOOSE k \in 1..Len(topic_map) :
                       /\ raw \in lists(k)
                       /\ \A n \in (k + 1)..Len(topic_map) : raw \notin lists(n)
    IN [raw \in raws |-> topic_map[at(raw)].target]

RECURSIVE norm_loop(_, _, _)
\* the loop of norm_topics over the topics
norm_loop(topics, canon, unmapped) ==
    IF topics = <<>> THEN [canon |-> canon, unmapped |-> unmapped]
    ELSE LET t_clean == Strip(Collapse(Head(topics)))
         IN IF t_clean \in DOMAIN REV_TOPIC_MAP
            THEN norm_loop(Tail(topics), canon \cup {REV_TOPIC_MAP[t_clean]},
                           unmapped)
            ELSE norm_loop(Tail(topics), canon \cup {t_clean},
                           unmapped \cup {t_clean})

\* norm_topics that puts an unmapped topic in the unmapped set only
norm_topics_unmapped_only(topics) ==
    LET r == norm_loop(topics, {}, {})
    IN [canon |-> r.canon \ r.unmapped, unmapped |-> r.unmapped]

\* norm_topics(topics): the two sets it returns as sorted lists; "topics or
\* []" makes the absent list the empty one
norm_topics(topics) == norm_loop(topics, {}, {})

(***************************************************************************)
(* 2. Source adapters                                                      *)
(***************************************************************************)
\* SRC_DATABASES, in iteration order (the two sources modelled)
SRC_DATABASES == <<"a_speakers", "bigspeak_scraper">>

\* doc.get(key, default) of a source document
DocGet(doc, key, default) == IF key \in DOMAIN doc THEN doc[key] ELSE default

unify_a_speakers(doc) ==
    LET tops == norm_topics(DocGet(doc, "topics", <<>>))
    IN [_id |-> sha_id("a_speakers", doc.nid),
        name |-> doc.name,
        job_title |-> doc.job,
        tagline |-> None,
        location |-> parse_location(doc.loc),
        social_media |-> DocGet(doc, "social_media", NoneObj),
        topics |-> tops.canon,
        categories |-> tops.canon,
        topics_unmapped |-> tops.unmapped,
        source_info |-> [py |-> "dict", original_source |-> "a_speakers",
                         source_id |-> doc.nid]]

\* location stays None when the document has no location.travels_from and
\* no structured address
\* and topics_list keeps the names of doc["topics"] that are not empty
unify_bigspeak(doc) ==
    LET topics_list == SelectSeq(DocGet(doc, "topics", <<>>), LAMBDA t : t # <<>>)
        tops == norm_topics(topics_list)
    IN [_id |-> sha_id("bigspeak", doc.nid),
        name |-> doc.name,
        job_title |-> doc.job,
        location |-> IF doc.loc # <<>> THEN parse_location(doc.loc) ELSE NoneObj,
        social_media |-> DocGet(doc, "social_media", NoneObj),
        topics |-> tops.canon,
        categories |-> tops.canon,
        topics_unmapped |-> tops.unmapped,
        source_info |-> [py |-> "dict", original_source |-> "bigspeak",
                         source_id |-> doc.nid]]

\* unify_allamerican: no try block, and doc["speaker_id"] is read
unify_allamerican(doc) ==
    [_id |-> sha_id("allamerican", doc.nid),
     name |-> doc.name,
     job_title |-> doc.job,
     location |-> parse_location(doc.loc),
     social_media |-> NoneObj,
     topics |-> {},
     categories |-> {},
     topics_unmapped |-> {},
     source_info |-> [py |-> "dict", original_source |-> "allamericanspeakers",
                      source_id |-> doc.nid]]

\* a native document with a nested value of the wrong type: an item of
\* doc["videos"] that is null (a_speakers), doc["additional_info"] that is a
\* list (bigspeak)
Malformed(doc) == DocGet(doc, "malformed", FALSE)

\* what a call of an adapter does: it returns a document, returns None, or
\* raises.  unify_a_speakers reads v.get("url") of each video outside any
\* try block; unify_bigspeak catches every exception and returns None;
\* unify_allamerican raises KeyError when the document has no speaker_id
adapter(doc) ==
    CASE doc.src = "a_speakers" ->
            IF Malformed(doc) THEN [res |-> "raise"]
            ELSE [res |-> "doc", doc |-> unify_a_speakers(doc)]
      [] doc.src = "bigspeak_scraper" ->
            IF Malformed(doc) THEN [res |-> "none"]
            ELSE [res |-> "doc", doc |-> unify_bigspeak(doc)]
      [] doc.src = "allamericanspeakers" ->
            IF "nid" \notin DOMAIN doc THEN [res |-> "raise"]
            ELSE [res |-> "doc", doc |-> unify_allamerican(doc)]

\* globals()[config["transformer"]](doc)
Transformer(doc) ==
    IF doc.src = SRC_DATABASES[1] THEN unify_a_speakers(doc) ELSE unify_bigspeak(doc)

(***************************************************************************)
(* 3. Deduplication helpers                                                *)
(***************************************************************************)
\* re.sub(r"[^a-z]", "", name.lower()) if name else ""
fingerprint_name(name) ==
    IF name = None THEN <<>>
    ELSE SelectSeq(Lower(name), LAMBDA c : c \in LowerCaseLetters)

RECURSIVE LCS(_, _)
\* length of the longest common subsequence of two sequences
LCS(s, t) ==
    IF s = <<>> \/ t = <<>> THEN 0
    ELSE IF Head(s) = Head(t) THEN 1 + LCS(Tail(s), Tail(t))
    ELSE LET x == LCS(Tail(s), t)
             y == LCS(s, Tail(t))
         IN IF x >= y THEN x ELSE y

\* rapidfuzz fuzz.ratio: the normalized Indel similarity 100 * 2*LCS/(|s|+|t|),
\* as the fraction num/den; 0 when an argument is None
fuzz_ratio(n1, n2) ==
    IF n1 = None \/ n2 = None THEN [num |-> 0, den |-> 1]
    ELSE IF Len(Chars(n1)) + Len(Chars(n2)) = 0 THEN [num |-> 100, den |-> 1]
    ELSE [num |-> 200 * LCS(Chars(n1), Chars(n2)),
          den |-> Len(Chars(n1)) + Len(Chars(n2))]

\* the bonus added for the same city
CityBonus == 10

\* a score must exceed this to match
Threshold == 90

\* index.get(key, [])
Bucket(index, key) == IF key \in DOMAIN index THEN index[key] ELSE <<>>

\* dict with index[key] replaced
Put(index, key, val) ==
    [k \in DOMAIN index \cup {key} |-> IF k = key THEN val ELSE index[k]]

RECURSIVE build_from(_, _)
build_from(recs, index) ==
    IF recs = <<>> THEN index
    ELSE LET doc == Head(recs)
             key == fingerprint_name(doc.name)
             \* the projection {"location.city": 1} leaves out a location
             \* that is not a document
             city == IF doc.location.py = "None" THEN None
                     ELSE Get(doc.location, "city")
         IN build_from(Tail(recs),
                IF key # <<>>
                THEN Put(index, key,
                         Append(Bucket(index, key), [id |-> doc._id, city |-> city]))
                ELSE index)

\* build_dedupe_index(collection): the documents in natural (insertion) order
build_dedupe_index(collection) == build_from(collection, <<>>)

RECURSIVE scan(_, _)
\* the loop of find_duplicate over the candidates:
\* "match" with the first id whose score exceeds the threshold, "none" when
\* the loop ends, "raise" when unified_doc["location"] is None and is read
scan(u_doc, cands) ==
    IF cands = <<>> THEN [res |-> "none"]
    ELSE LET c == Head(cands)
             score == fuzz_ratio(u_doc.name, u_doc.name)
         IN IF c.city # None /\ u_doc.location.py = "None"
            THEN [res |-> "raise"]
            ELSE LET same == /\ c.city # None
                             /\ Get(u_doc.location, "city") # None
                             /\ Lower(c.city) = Lower(Get(u_doc.location, "city"))
                     bonus == IF same THEN CityBonus ELSE 0
                 IN IF score.num + bonus * score.den > Threshold * score.den
                    THEN [res |-> "match", id |-> c.id]
                    ELSE scan(u_doc, Tail(cands))

find_duplicate(unified_doc, index) ==
    scan(unified_doc, Bucket(index, fingerprint_name(unified_doc.name)))

(***************************************************************************)
(* The unified collection (the document store)                             *)
(***************************************************************************)
\* position of the document with this _id in a collection, 0 when there is none
Find(coll, id) ==
    IF \E k \in 1..Len(coll) : coll[k]._id = id
    THEN CHOOSE k \in 1..Len(coll) : coll[k]._id = id
    ELSE 0

\* {"$set": update_doc} on one document
SetFields(rec, upd) ==
    [k \in DOMAIN rec \cup DOMAIN upd |-> IF k \in DOMAIN upd THEN upd[k] ELSE rec[k]]

\* ApplyOp with the upsert writing its document with $set instead of
\* $setOnInsert
ApplyOpSetOnUpsert(coll, op) ==
    LET k == Find(coll, op.id)
    IN IF k = 0
       THEN IF op.kind = "set" THEN coll ELSE Append(coll, op.doc)
       ELSE [coll EXCEPT ![k] = SetFields(coll[k], op.doc)]

\* ApplyOp with the upsert turned into a plain insert
ApplyOpInsert(coll, op) ==
    LET k == Find(coll, op.id)
    IN IF op.kind = "set"
       THEN IF k = 0 THEN coll
            ELSE [coll EXCEPT ![k] = SetFields(coll[k], op.doc)]
       ELSE Append(coll, op.doc)

\* one UpdateOne of a bulk write executed by the store:
\*   UpdateOne({"_id": id}, {"$set": doc})                      kind "set"
\*   UpdateOne({"_id": id}, {"$setOnInsert": doc}, upsert=True) kind "upsert"
ApplyOp(coll, op) ==
    LET k == Find(coll, op.id)
    IN IF op.kind = "set"
       THEN IF k = 0 THEN coll
            ELSE [coll EXCEPT ![k] = SetFields(coll[k], op.doc)]
       ELSE IF k = 0 THEN Append(coll, op.doc) ELSE coll

(***************************************************************************)
(* 4. run()                                                                *)
(***************************************************************************)
vars == <<docs, unified, dedupe_idx, bulk_ops, pending, total_in, total_upd,
          total_new, pc, i, runs, kills, prev, prevDone, serial, last,
          topic_map, arg, ret, queued, sent, fails,
          source_collection, details_collection, resume_collection,
          processed_count, success_count, error_count, speakers, batch, idx,
          spc, sessions, interrupts, todo, processed, restored>>

\* the state of the speaker-details scraper
scraper_vars == <<source_collection, details_collection, resume_collection,
                  processed_count, success_count, error_count, speakers,
                  batch, idx, spc, sessions, interrupts, todo, processed,
                  restored>>

\* resume_collection without a state of the session id
NoState == [found |-> FALSE]

\* no session of the scraper was started, its collections are empty
ScraperIdle ==
    /\ source_collection = <<>>
    /\ details_collection = <<>>
    /\ resume_collection = NoState
    /\ processed_count = 0 /\ success_count = 0 /\ error_count = 0
    /\ speakers = <<>>
    /\ batch = <<>>
    /\ idx = 0
    /\ spc = "idle"
    /\ sessions = 0
    /\ interrupts = 0
    /\ todo = {}
    /\ processed = {}
    /\ restored = FALSE

\* datetime.utcnow(): later documents and later runs read later times
Now == runs * (MaxDocs + 1) + i

\* update_doc that keeps the candidate's _id
update_doc_with_id(u_doc) == u_doc @@ ("updated_at" :> Now)

\* the update document of the MATCH branch: u_doc with updated_at, without _id
update_doc(u_doc) ==
    LET stamped == u_doc @@ ("updated_at" :> Now)
    IN [k \in DOMAIN stamped \ {"_id"} |-> stamped[k]]

\* the operation queued by the MATCH branch
MatchOp(u_doc, dup_id) == [kind |-> "set", id |-> dup_id, doc |-> update_doc(u_doc)]

\* the operation queued by the NEW branch
NewOp(u_doc) ==
    [kind |-> "upsert", id |-> u_doc._id, doc |-> u_doc @@ ("created_at" :> Now)]

\* dedupe_idx[fingerprint_name(name)].append((_id, location.get("city")))
Register(index, u_doc) ==
    LET key == fingerprint_name(u_doc.name)
    IN Put(index, key,
           Append(Bucket(index, key),
                  [id |-> u_doc._id, city |-> Get(u_doc.location, "city")]))

\* the defaultdict entry made by dedupe_idx[key] when the append then raises
Touch(index, u_doc) ==
    LET key == fingerprint_name(u_doc.name)
    IN Put(index, key, Bucket(index, key))

\* the names, locations and job titles of the source documents
Names == {None, "12", "ab", "a b"}

Locs == {<<>>, <<"Austin", "USA">>}

Jobs == {None, "CEO"}

\* speaker_id values of bigspeak documents (they may repeat)
SpeakerIds == {"s1", "s2"}

\* _id of the j-th a_speakers document (unique in its collection)
ObjectId(j) == <<"o1", "o2", "o3", "o4", "o5">>[j]

\* SourceDocs with the sources read in the opposite order
SourceDocsReversed(n, k, attr, sid) ==
    [j \in 1..n |->
        [src |-> IF j <= k THEN SRC_DATABASES[2] ELSE SRC_DATABASES[1],
         nid |-> IF j <= k THEN (IF j = 1 THEN "s1" ELSE "s2") ELSE ObjectId(j),
         name |-> attr[j][1], loc |-> attr[j][2], job |-> attr[j][3]]]

\* n source documents, the first k of a_speakers, the others of
\* bigspeak_scraper (the first of them with speaker_id s1)
SourceDocs(n, k, attr, sid) ==
    [j \in 1..n |->
        [src |-> IF j <= k THEN SRC_DATABASES[1] ELSE SRC_DATABASES[2],
         nid |-> IF j <= k THEN ObjectId(j) ELSE IF j = k + 1 THEN "s1" ELSE sid[j],
         name |-> attr[j][1], loc |-> attr[j][2], job |-> attr[j][3]]]

\* a mapping file with one topic and one variant of it
DefaultTopicMap == <<[target |-> <<"T">>, variants |-> << <<"a">> >>]>>

\* no utility is called directly
NoCall == [fn |-> "none"]

\* the process before run() is called, over an empty unified collection
InitRun ==
    /\ topic_map = DefaultTopicMap
    /\ arg = NoCall
    /\ ret = NoCall
    /\ queued = <<>> /\ sent = <<>> /\ fails = 0
    /\ unified = <<>>
    /\ dedupe_idx = <<>>
    /\ bulk_ops = <<>>
    /\ pending = {}
    /\ total_in = 0 /\ total_upd = 0 /\ total_new = 0
    /\ pc = "idle"
    /\ i = 1
    /\ runs = 0
    /\ kills = 0
    /\ prev = <<>>
    /\ prevDone = FALSE
    /\ serial = <<>>
    /\ last = [branch |-> "none"]
    /\ ScraperIdle

\* the source collections hold documents with these names, locations and jobs
InitWith(names, locs, jobs) ==
    /\ \E n \in 1..MaxDocs : \E k \in 0..n :
         \E attr \in [1..n -> names \X locs \X jobs] :
           \E sid \in [(k+2)..n -> SpeakerIds] :
             docs = SourceDocs(n, k, attr, sid)
    /\ InitRun

\* the same, each document with one more field, of one of the values vals
InitWithField(names, locs, jobs, key, vals) ==
    /\ \E n \in 1..MaxDocs : \E k \in 0..n :
         \E attr \in [1..n -> names \X locs \X jobs] :
           \E sid \in [(k+2)..n -> SpeakerIds] :
             \E x \in [1..n -> vals] :
               docs = [j \in 1..n |->
                          SourceDocs(n, k, attr, sid)[j] @@ (key :> x[j])]
    /\ InitRun

\* run() up to the first document: the index is built from the collection
StartRun ==
    /\ pc \in {"idle", "done"}
    /\ runs < MaxRuns
    /\ runs' = runs + 1
    /\ dedupe_idx' = build_dedupe_index(unified)
    /\ bulk_ops' = <<>>
    /\ pending' = {}
    /\ total_in' = 0 /\ total_upd' = 0 /\ total_new' = 0
    /\ i' = 1
    /\ pc' = "loop"
    /\ prev' = unified
    /\ prevDone' = (pc = "done")
    /\ serial' = unified
    /\ last' = [branch |-> "none"]
    /\ queued' = <<>> /\ sent' = <<>>
    /\ UNCHANGED <<scraper_vars, docs, unified, kills, topic_map, arg, ret, fails>>

\* "if len(bulk_ops) >= 1000: unified.bulk_write(bulk_ops, ordered=False)"
FlushCheck(ops) ==
    IF Len(ops) >= BatchSize
    THEN pc' = "flush" /\ pending' = 1..Len(ops) /\ sent' = sent \o ops
    ELSE pc' = "loop" /\ pending' = {} /\ sent' = sent

\* loop body, find_duplicate raises: the except clause skips the document
DocRaise ==
    /\ pc = "loop" /\ i <= Len(docs)
    /\ adapter(docs[i]).res = "doc"
    /\ LET u_doc == Transformer(docs[i])
           dup == find_duplicate(u_doc, dedupe_idx)
       IN /\ dup.res = "raise"
          /\ last' = [branch |-> "raise", cand |-> u_doc]
    /\ total_in' = total_in + 1
    /\ i' = i + 1
    /\ UNCHANGED <<scraper_vars, docs, unified, dedupe_idx, bulk_ops, pending, total_upd,
                   total_new, pc, runs, kills, prev, prevDone, serial,
                   topic_map, arg, ret, queued, sent, fails>>

\* loop body, MATCH branch
DocMatch ==
    /\ pc = "loop" /\ i <= Len(docs)
    /\ adapter(docs[i]).res = "doc"
    /\ LET u_doc == Transformer(docs[i])
           dup == find_duplicate(u_doc, dedupe_idx)
       IN /\ dup.res = "match"
          /\ bulk_ops' = Append(bulk_ops, MatchOp(u_doc, dup.id))
          /\ queued' = Append(queued, MatchOp(u_doc, dup.id))
          /\ serial' = ApplyOp(serial, MatchOp(u_doc, dup.id))
          /\ last' = [branch |-> "match", cand |-> u_doc, dup_id |-> dup.id,
                      existing |-> serial[Find(serial, dup.id)]]
    /\ total_upd' = total_upd + 1
    /\ total_in' = total_in + 1
    /\ i' = i + 1
    /\ FlushCheck(bulk_ops')
    /\ UNCHANGED <<scraper_vars, docs, unified, dedupe_idx, total_new, runs, kills, prev,
                   prevDone, topic_map, arg, ret, fails>>

\* loop body, NEW branch; reading location.get("city") of a None location
\* raises after the operation is queued and counted, and the except clause
\* then skips the registration and the flush check
DocNew ==
    /\ pc = "loop" /\ i <= Len(docs)
    /\ adapter(docs[i]).res = "doc"
    /\ LET u_doc == Transformer(docs[i])
           dup == find_duplicate(u_doc, dedupe_idx)
       IN /\ dup.res = "none"
          /\ bulk_ops' = Append(bulk_ops, NewOp(u_doc))
          /\ queued' = Append(queued, NewOp(u_doc))
          /\ serial' = ApplyOp(serial, NewOp(u_doc))
          /\ last' = [branch |-> "new", cand |-> u_doc]
          /\ IF u_doc.location.py = "None"
             THEN /\ dedupe_idx' = Touch(dedupe_idx, u_doc)
                  /\ UNCHANGED <<pc, pending, sent>>
             ELSE /\ dedupe_idx' = Register(dedupe_idx, u_doc)
                  /\ FlushCheck(bulk_ops')
    /\ total_new' = total_new + 1
    /\ total_in' = total_in + 1
    /\ i' = i + 1
    /\ UNCHANGED <<scraper_vars, docs, unified, total_upd, runs, kills, prev, prevDone,
                   topic_map, arg, ret, fails>>

\* loop body, the adapter returns None ("if not u_doc: continue") or
\* raises (the except clause): the document is counted as read and skipped
DocSkip ==
    /\ pc = "loop" /\ i <= Len(docs)
    /\ adapter(docs[i]).res # "doc"
    /\ last' = [branch |-> "skip", res |-> adapter(docs[i]).res]
    /\ total_in' = total_in + 1
    /\ i' = i + 1
    /\ UNCHANGED <<scraper_vars, docs, unified, dedupe_idx, bulk_ops, pending, total_upd,
                   total_new, pc, runs, kills, prev, prevDone, serial,
                   topic_map, arg, ret, queued, sent, fails>>

\* WriteOp without "bulk_ops = []" after the flush inside the loop
WriteOpKeepsBuffer ==
    /\ pc \in {"flush", "final"}
    /\ \E k \in pending :
         /\ unified' = ApplyOp(unified, bulk_ops[k])
         /\ pending' = pending \ {k}
         /\ IF pending' = {}
            THEN /\ pc' = IF pc = "flush" THEN "loop" ELSE "done"
                 /\ bulk_ops' = bulk_ops
            ELSE UNCHANGED <<pc, bulk_ops>>
    /\ UNCHANGED <<scraper_vars, docs, dedupe_idx, total_in, total_upd, total_new, i, runs,
                   kills, prev, prevDone, serial, last, topic_map, arg, ret,
                   queued, sent, fails>>

\* the store executes one operation of the bulk write in progress; with
\* ordered=False the operations are executed in arbitrary order.  When the
\* last one is done bulk_write returns: "bulk_ops = []" in the loop, the
\* summary after the final flush
WriteOp ==
    /\ pc \in {"flush", "final"}
    /\ \E k \in pending :
         /\ unified' = ApplyOp(unified, bulk_ops[k])
         /\ pending' = pending \ {k}
         /\ IF pending' = {}
            THEN /\ pc' = IF pc = "flush" THEN "loop" ELSE "done"
                 /\ bulk_ops' = IF pc = "flush" THEN <<>> ELSE bulk_ops
            ELSE UNCHANGED <<pc, bulk_ops>>
    /\ UNCHANGED <<scraper_vars, docs, dedupe_idx, total_in, total_upd, total_new, i, runs,
                   kills, prev, prevDone, serial, last, topic_map, arg, ret,
                   queued, sent, fails>>

\* the bulk write of the flush inside the loop raises, some of its
\* operations executed: the except clause of the loop body catches it, after
\* the document was queued and counted, and "bulk_ops = []" is not reached
FlushFail ==
    /\ pc = "flush"
    /\ fails < MaxFails
    /\ fails' = fails + 1
    /\ pc' = "loop"
    /\ pending' = {}
    /\ UNCHANGED <<scraper_vars, docs, unified, dedupe_idx, bulk_ops, total_in, total_upd,
                   total_new, i, runs, kills, prev, prevDone, serial, last,
                   topic_map, arg, ret, queued, sent>>

\* the bulk write after the last source raises, some of its operations
\* executed: no try block encloses it, run() ends with the exception and
\* the summary is not printed
FinalFail ==
    /\ pc = "final"
    /\ fails < MaxFails
    /\ fails' = fails + 1
    /\ pc' = "raised"
    /\ pending' = {}
    /\ UNCHANGED <<scraper_vars, docs, unified, dedupe_idx, bulk_ops, total_in, total_upd,
                   total_new, i, runs, kills, prev, prevDone, serial, last,
                   topic_map, arg, ret, queued, sent>>

\* after the last source: "if bulk_ops: unified.bulk_write(...)", the summary
EndOfSources ==
    /\ pc = "loop" /\ i > Len(docs)
    /\ IF bulk_ops # <<>>
       THEN pc' = "final" /\ pending' = 1..Len(bulk_ops)
            /\ sent' = sent \o bulk_ops
       ELSE pc' = "done" /\ pending' = {} /\ sent' = sent
    /\ UNCHANGED <<scraper_vars, docs, unified, dedupe_idx, bulk_ops, total_in, total_upd,
                   total_new, i, runs, kills, prev, prevDone, serial, last,
                   topic_map, arg, ret, queued, fails>>

\* the process is killed during run(): everything but the store is lost
Kill ==
    /\ pc \in {"loop", "flush", "final"}
    /\ kills < MaxKills
    /\ kills' = kills + 1
    /\ pc' = "idle"
    /\ dedupe_idx' = <<>>
    /\ bulk_ops' = <<>>
    /\ pending' = {}
    /\ total_in' = 0 /\ total_upd' = 0 /\ total_new' = 0
    /\ i' = 1
    /\ last' = [branch |-> "none"]
    /\ queued' = <<>> /\ sent' = <<>>
    /\ UNCHANGED <<scraper_vars, docs, unified, runs, prev, prevDone, serial, topic_map,
                   arg, ret, fails>>

Next ==
    \/ StartRun
    \/ DocRaise
    \/ DocMatch
    \/ DocNew
    \/ WriteOp
    \/ EndOfSources
    \/ Kill

(***************************************************************************)
(* 5. Direct calls of the utilities                                        *)
(***************************************************************************)
\* the strings of at most n characters of an alphabet
Strings(alphabet, n) == UNION {[1..k -> alphabet] : k \in 0..n}

\* the characters of the topic strings
TopicChars == {"a", " ", "\t"}

\* the topic lists norm_topics is called with
TopicLists ==
    UNION {[1..k -> Strings(TopicChars, MaxTopicLen)] : k \in 0..MaxTopics}

\* mapping files: one variant; a variant written with a leading space; two
\* variants, one with a space inside; one variant listed under two topics
TopicMaps ==
    {DefaultTopicMap,
     <<[target |-> <<"T">>, variants |-> << <<" ", "a">> >>]>>,
     <<[target |-> <<"T">>, variants |-> << <<"a">>, <<"a", " ", "a">> >>]>>,
     <<[target |-> <<"T">>, variants |-> << <<"a">> >>],
       [target |-> <<"U">>, variants |-> << <<"a">> >>]>>}

\* the characters of the location strings
LocChars == {"A", " ", ","}

\* the process about to call a utility with one of the arguments args, the
\* mapping file being one of maps
InitCall(maps, args) ==
    /\ topic_map \in maps
    /\ arg \in args
    /\ ret = NoCall
    /\ queued = <<>> /\ sent = <<>> /\ fails = 0
    /\ pc = "call"
    /\ docs = <<>>
    /\ unified = <<>>
    /\ dedupe_idx = <<>>
    /\ bulk_ops = <<>>
    /\ pending = {}
    /\ total_in = 0 /\ total_upd = 0 /\ total_new = 0
    /\ i = 1
    /\ runs = 0
    /\ kills = 0
    /\ prev = <<>>
    /\ prevDone = FALSE
    /\ serial = <<>>
    /\ last = [branch |-> "none"]
    /\ ScraperIdle

\* norm_topics(arg) is called and returns
CallNormTopics ==
    /\ pc = "call" /\ arg.fn = "norm_topics"
    /\ ret' = [fn |-> "norm_topics", value |-> norm_topics(arg.topics)]
    /\ pc' = "returned"
    /\ UNCHANGED <<scraper_vars, docs, unified, dedupe_idx, bulk_ops, pending, total_in,
                   total_upd, total_new, i, runs, kills, prev, prevDone, serial,
                   last, topic_map, arg, queued, sent, fails>>

\* parse_location(arg) is called on a string and returns
CallParseLocation ==
    /\ pc = "call" /\ arg.fn = "parse_location"
    /\ ret' = [fn |-> "parse_location", value |-> parse_location_str(arg.loc)]
    /\ pc' = "returned"
    /\ UNCHANGED <<scraper_vars, docs, unified, dedupe_idx, bulk_ops, pending, total_in,
                   total_upd, total_new, i, runs, kills, prev, prevDone, serial,
                   last, topic_map, arg, queued, sent, fails>>

\* parse_location(arg) is called on None or on a dict and returns
CallParseLocationObject ==
    /\ pc = "call" /\ arg.fn = "parse_location_object"
    /\ ret' = [fn |-> "parse_location_object",
               value |-> parse_location_object(arg.obj)]
    /\ pc' = "returned"
    /\ UNCHANGED <<scraper_vars, docs, unified, dedupe_idx, bulk_ops, pending, total_in,
                   total_upd, total_new, i, runs, kills, prev, prevDone, serial,
                   last, topic_map, arg, queued, sent, fails>>

\* an adapter is called on a native document and returns or raises
CallAdapter ==
    /\ pc = "call" /\ arg.fn = "adapter"
    /\ ret' = [fn |-> "adapter", out |-> adapter(arg.doc)]
    /\ pc' = "returned"
    /\ UNCHANGED <<scraper_vars, docs, unified, dedupe_idx, bulk_ops, pending, total_in,
                   total_upd, total_new, i, runs, kills, prev, prevDone, serial,
                   last, topic_map, arg, queued, sent, fails>>

\* native documents of three sources: well formed, with a nested value of
\* the wrong type, without speaker_id
AdapterDocs ==
    {[src |-> s, nid |-> "s1", name |-> n, loc |-> l, job |-> j, malformed |-> m] :
        s \in {"a_speakers", "bigspeak_scraper", "allamericanspeakers"},
        n \in Names, l \in Locs, j \in Jobs, m \in BOOLEAN}
    \cup {[src |-> "allamericanspeakers", name |-> n, loc |-> l, job |-> j] :
             n \in Names, l \in Locs, j \in Jobs}

\* a direct call of an adapter
InitAdapters ==
    InitCall({DefaultTopicMap}, {[fn |-> "adapter", doc |-> d] : d \in AdapterDocs})

NextAdapters == CallAdapter

\* source documents of one name, some with a nested value of the wrong type
InitSkip == InitWithField({"ab"}, Locs, {"CEO"}, "malformed", BOOLEAN)

NextSkip == Next \/ DocSkip

\* source documents that all have a location, so that no document is
\* skipped
InitFail == InitWith({"ab", "a b"}, {<<"Austin", "USA">>}, {"CEO"})

\* run() without kill, with bulk writes that may fail
NextFail ==
    \/ StartRun
    \/ DocMatch
    \/ DocNew
    \/ WriteOp
    \/ FlushFail
    \/ FinalFail
    \/ EndOfSources

\* doc.get("topics") of the source documents
RunTopics == {<<>>, << <<"a">> >>, << <<"b">>, <<"a">> >>}

\* either run() over source documents of one name with topics, or a direct
\* call of norm_topics
InitTopics ==
    \/ InitWithField({"ab"}, Locs, {"CEO"}, "topics", RunTopics)
    \/ InitCall(TopicMaps,
                {[fn |-> "norm_topics", topics |-> ts] : ts \in TopicLists})

NextTopics == Next \/ CallNormTopics

\* the values other than strings parse_location is called with: None, the
\* empty dict, dicts with some of the keys
LocObjects ==
    {NoneObj, EmptyDict,
     [py |-> "dict", city |-> <<"A">>],
     [py |-> "dict", city |-> <<"A">>, country |-> <<"B">>],
     [py |-> "dict", state_province |-> <<"C">>, timezone |-> <<"Z">>]}

\* a direct call of parse_location on a string, on None or on a dict
InitLocation ==
    InitCall({DefaultTopicMap},
             {[fn |-> "parse_location", loc |-> s] :
                 s \in Strings(LocChars, MaxLocLen)}
             \cup {[fn |-> "parse_location_object", obj |-> d] :
                       d \in LocObjects})

NextLocation == CallParseLocation \/ CallParseLocationObject

\* source documents of every name and location, with one job title
Init == InitWith(Names, Locs, {"CEO"})

\* source documents of one name fingerprint, with and without a job title
InitMerge == InitWith({"ab", "a b"}, Locs, Jobs)

\* the cities of the source documents of InitCity
CityLocs == {<<>>, <<"Austin", "USA">>, <<"austin", "USA">>, <<"Reno", "USA">>}

\* source documents whose names differ in letters ("Jane A. Doe") or in
\* case only ("Jane doe"), in the same city or in different cities
InitCity == InitWith({"Jane A. Doe", "Jane Doe", "Jane doe"}, CityLocs, {"CEO"})

\* doc.get("social_media") of the source documents: None or a dict of
\* platform -> url
Socials == {NoneObj,
            [py |-> "dict", linkedin |-> "L"],
            [py |-> "dict", twitter |-> "T"]}

\* source documents of one name, with and without social_media
InitSocial == InitWithField({"ab"}, Locs, {"CEO"}, "social_media", Socials)

(***************************************************************************)
(* 6. analysis/merge_categories_to_topics.py                               *)
(***************************************************************************)
\* str.lower() of a string given by its characters
LowerSeq(s) == [k \in 1..Len(s) |-> LowerChar(s[k])]

\* the keys of topic_mapping: "topic in topic_mapping"
canonicals == {topic_map[k].target : k \in 1..Len(topic_map)}

\* reverse_mapping[variation.lower()] = canonical, in the order of the
\* mapping file: a variation listed under several topics keeps the last
reverse_mapping ==
    LET lists(k) == {LowerSeq(topic_map[k].variants[m]) :
                        m \in 1..Len(topic_map[k].variants)}
        raws == UNION {lists(k) : k \in 1..Len(topic_map)}
        at(raw) == CHOOSE k \in 1..Len(topic_map) :
                       /\ raw \in lists(k)
                       /\ \A n \in (k + 1)..Len(topic_map) : raw \notin lists(n)
    IN [raw \in raws |-> topic_map[at(raw)].target]

\* topic.lower().strip()
topic_lower(topic) == Strip(LowerSeq(topic))

\* the "$set" of the update of one record: mapped_topics and new_unmapped
\* after the loop over all_topics and the loop over the unmapped topics
merge_update(doc) ==
    LET topics == DocGet(doc, "topics", {})
        categories == DocGet(doc, "categories", {})
        unmapped == DocGet(doc, "topics_unmapped", {})
        all_topics == {t \in topics \cup categories : t # <<>>}
        known(ts) == {t \in ts : topic_lower(t) \in DOMAIN reverse_mapping}
        by_key == all_topics \cap canonicals
        by_variant == known(all_topics \ canonicals)
        old == {t \in unmapped : t # <<>>}
        mapped_topics ==
            by_key \cup {reverse_mapping[topic_lower(t)] :
                            t \in by_variant \cup known(old)}
        new_unmapped ==
            ((all_topics \ canonicals) \ by_variant) \cup (old \ known(old))
    IN [topics |-> mapped_topics, topics_unmapped |-> new_unmapped]

\* UpdateOne({"_id": doc["_id"]}, update), with "$unset" of categories when
\* the record has the field
merge_op(doc) ==
    [id |-> doc._id, set |-> merge_update(doc),
     unset |-> "categories" \in DOMAIN doc]

\* one record after its update
Rewrite(r, op) ==
    [x \in (DOMAIN r \cup {"topics", "topics_unmapped"})
              \ (IF op.unset THEN {"categories"} ELSE {}) |->
        IF x = "topics" THEN op.set.topics
        ELSE IF x = "topics_unmapped" THEN op.set.topics_unmapped
        ELSE r[x]]

\* collection.bulk_write(bulk_ops, ordered=False): every operation of a
\* batch addresses another record, so that their order changes nothing
bulk_write(coll, ops) ==
    [k \in 1..Len(coll) |->
        IF \E j \in 1..Len(ops) : ops[j].id = coll[k]._id
        THEN Rewrite(coll[k], ops[CHOOSE j \in 1..Len(ops) :
                                     ops[j].id = coll[k]._id])
        ELSE coll[k]]

\* one document of the cursor: its update is queued, and the batch written
\* when it holds batch_size operations
MergeDoc ==
    /\ pc = "merge" /\ i <= Len(unified)
    /\ i' = i + 1
    /\ LET ops == Append(bulk_ops, merge_op(unified[i]))
       IN IF Len(ops) >= BatchSize
          THEN unified' = bulk_write(unified, ops) /\ bulk_ops' = <<>>
          ELSE unified' = unified /\ bulk_ops' = ops
    /\ UNCHANGED <<scraper_vars, docs, dedupe_idx, pending, total_in, total_upd, total_new,
                   pc, runs, kills, prev, prevDone, serial, last, topic_map,
                   arg, ret, queued, sent, fails>>

\* after the cursor: the remaining operations are written
MergeEnd ==
    /\ pc = "merge" /\ i > Len(unified)
    /\ pc' = "merged"
    /\ unified' = IF bulk_ops # <<>> THEN bulk_write(unified, bulk_ops)
                  ELSE unified
    /\ UNCHANGED <<scraper_vars, docs, dedupe_idx, bulk_ops, pending, total_in, total_upd,
                   total_new, i, runs, kills, prev, prevDone, serial, last,
                   topic_map, arg, ret, queued, sent, fails>>

\* the topic strings of the records: a variation, the same in upper case
\* and with a space, a canonical topic, a topic of no mapping, the empty one
MergeTopics == {<<"a">>, <<"A">>, <<"a", " ">>, <<"T">>, <<"b">>, <<>>}

\* the lists of topics of a record
MergeLists == {{}} \cup {{t} : t \in MergeTopics} \cup {{<<"a">>, <<"b">>}}

\* the records of the collection: with and without the field categories
MergeRecords ==
    {[_id |-> "m1", topics |-> ts, topics_unmapped |-> us] :
        ts \in MergeLists, us \in {{}, {<<"b">>}, {<<"A">>}}}
    \cup {[_id |-> "m1", topics |-> ts, categories |-> cs,
           topics_unmapped |-> {}] :
             ts \in {{}, {<<"b">>}}, cs \in MergeLists}

\* the mapping files of the merge: one variation, and a variation written
\* in upper case under the second of two topics
MergeMaps ==
    {DefaultTopicMap,
     <<[target |-> <<"T">>, variants |-> << <<"a">> >>],
       [target |-> <<"U">>, variants |-> << <<"A">> >>]>>}

\* the collection before merge_categories_and_topics is called: one record,
\* or the same followed by records of other ids
InitCategories ==
    /\ topic_map \in MergeMaps
    /\ \E r \in MergeRecords :
         unified \in {<<r>>,
                      <<r, [_id |-> "m2", topics |-> {<<"b">>}]>>,
                      <<r, [_id |-> "m2", topics |-> {<<"b">>}],
                           [_id |-> "m3", categories |-> {<<"T">>}]>>}
    /\ prev = unified
    /\ pc = "merge"
    /\ i = 1
    /\ arg = NoCall
    /\ ret = NoCall
    /\ queued = <<>> /\ sent = <<>> /\ fails = 0
    /\ docs = <<>>
    /\ dedupe_idx = <<>>
    /\ bulk_ops = <<>>
    /\ pending = {}
    /\ total_in = 0 /\ total_upd = 0 /\ total_new = 0
    /\ runs = 0
    /\ kills = 0
    /\ prevDone = FALSE
    /\ serial = <<>>
    /\ last = [branch |-> "none"]
    /\ ScraperIdle

NextCategories == MergeDoc \/ MergeEnd

(***************************************************************************)
(* 7. speakerhub_camoufox/speaker_details_scraper                          *)
(***************************************************************************)
\* the state of run(): the standardization pipeline is not running
run_vars == <<docs, unified, dedupe_idx, bulk_ops, pending, total_in,
              total_upd, total_new, pc, i, runs, kills, prev, prevDone,
              serial, last, topic_map, arg, ret, queued, sent, fails>>

\* get_scraped_speaker_uids(): the uids of scraping_status "completed"
get_scraped_speaker_uids ==
    {u \in DOMAIN details_collection : details_collection[u] = "completed"}

\* get_speakers_to_scrape(limit=None): the source collection without the
\* speakers already scraped
get_speakers_to_scrape ==
    SelectSeq(source_collection, LAMBDA u : u \notin get_scraped_speaker_uids)

\* the state _save_resume_state() saves
state_saved(np, ns, ne) ==
    [found |-> TRUE, processed_count |-> np,
     success_count |-> ns, error_count |-> ne]

\* _save_batch(batch): the records of the batch are written, with the
\* scraping_status "completed" the parser gave them
save_batch(details, b) ==
    [u \in DOMAIN details |->
        IF \E k \in 1..Len(b) : b[k] = u THEN "completed" ELSE details[u]]

\* run(resume) of a new SpeakerDetailsScraper of the same session id, up to
\* the loop of _process_speakers: the counters are those of __init__ or,
\* when a state is found, those of _restore_from_state; start_index is
\* processed_count
ScraperRun ==
    /\ spc \in {"idle", "finished"}
    /\ sessions < MaxSessions
    /\ sessions' = sessions + 1
    /\ \E resume \in BOOLEAN :
         LET resume_state == IF resume THEN resume_collection ELSE NoState
         IN /\ resume_collection' = resume_state
            /\ restored' = resume_state.found
            /\ processed_count' = IF resume_state.found
                                  THEN resume_state.processed_count ELSE 0
            /\ success_count' = IF resume_state.found
                                THEN resume_state.success_count ELSE 0
            /\ error_count' = IF resume_state.found
                              THEN resume_state.error_count ELSE 0
    /\ speakers' = get_speakers_to_scrape
    /\ spc' = IF speakers' = <<>> THEN "finished" ELSE "process"
    /\ idx' = processed_count'
    /\ batch' = <<>>
    /\ todo' = {source_collection[k] : k \in 1..Len(source_collection)}
                  \ get_scraped_speaker_uids
    /\ processed' = {}
    /\ UNCHANGED <<run_vars, source_collection, details_collection,
                   interrupts>>

\* one speaker of speakers[start_index:]: marked in progress and scraped;
\* the page is parsed, or every attempt raised and the speaker is marked
\* failed, or the page was blocked at every attempt.  The batch is saved
\* when it holds batch_size speakers, the state every save_state_every
\* speakers.  (Sessions of fewer than max_errors_before_stop speakers.)
ProcessSpeaker ==
    /\ spc = "process" /\ idx < Len(speakers)
    /\ idx' = idx + 1
    /\ LET uid == speakers[idx + 1]
       IN /\ processed' = processed \cup {uid}
          /\ \E outcome \in {"parsed", "failed", "blocked"} :
               IF outcome = "parsed"
               THEN /\ success_count' = success_count + 1
                    /\ error_count' = error_count
                    /\ IF Len(batch) + 1 >= batch_size
                       THEN /\ details_collection' =
                                   save_batch(details_collection,
                                              Append(batch, uid))
                            /\ batch' = <<>>
                       ELSE /\ details_collection' =
                                   [details_collection
                                       EXCEPT ![uid] = "in_progress"]
                            /\ batch' = Append(batch, uid)
               ELSE /\ success_count' = success_count
                    /\ error_count' = error_count + 1
                    /\ details_collection' =
                           [details_collection EXCEPT ![uid] =
                               IF outcome = "failed" THEN "failed"
                               ELSE "in_progress"]
                    /\ batch' = batch
    /\ processed_count' = processed_count + 1
    /\ resume_collection' =
           IF processed_count' % save_state_every = 0
           THEN state_saved(processed_count', success_count', error_count')
           ELSE resume_collection
    /\ UNCHANGED <<run_vars, source_collection, speakers, spc, sessions,
                   interrupts, todo, restored>>

\* the loop is over: the remaining batch is saved, and run() clears the
\* saved state when a speaker was scraped
ProcessEnd ==
    /\ spc = "process" /\ idx >= Len(speakers)
    /\ spc' = "finished"
    /\ details_collection' = save_batch(details_collection, batch)
    /\ batch' = <<>>
    /\ resume_collection' = IF success_count > 0 THEN NoState
                            ELSE resume_collection
    /\ UNCHANGED <<run_vars, source_collection, processed_count,
                   success_count, error_count, speakers, idx, sessions,
                   interrupts, todo, processed, restored>>

\* KeyboardInterrupt during the loop: run() saves the state; the batch of
\* _process_speakers is lost with its frame
Interrupt ==
    /\ spc = "process"
    /\ interrupts < MaxInterrupts
    /\ interrupts' = interrupts + 1
    /\ spc' = "idle"
    /\ resume_collection' =
           state_saved(processed_count, success_count, error_count)
    /\ batch' = <<>>
    /\ UNCHANGED <<run_vars, source_collection, details_collection,
                   processed_count, success_count, error_count, speakers,
                   idx, sessions, todo, processed, restored>>

\* a source collection of speakers, some of them already scraped, no saved
\* state, no session started
InitScraper ==
    /\ \E n \in 1..MaxSpeakers :
         /\ source_collection = [k \in 1..n |-> k]
         /\ details_collection \in [1..n -> {"none", "completed"}]
    /\ resume_collection = NoState
    /\ processed_count = 0 /\ success_count = 0 /\ error_count = 0
    /\ speakers = <<>>
    /\ batch = <<>>
    /\ idx = 0
    /\ spc = "idle"
    /\ sessions = 0
    /\ interrupts = 0
    /\ todo = {}
    /\ processed = {}
    /\ restored = FALSE
    /\ topic_map = DefaultTopicMap
    /\ arg = NoCall
    /\ ret = NoCall
    /\ queued = <<>> /\ sent = <<>> /\ fails = 0
    /\ docs = <<>>
    /\ unified = <<>>
    /\ dedupe_idx = <<>>
    /\ bulk_ops = <<>>
    /\ pending = {}
    /\ total_in = 0 /\ total_upd = 0 /\ total_new = 0
    /\ pc = "idle"
    /\ i = 1
    /\ runs = 0
    /\ kills = 0
    /\ prev = <<>>
    /\ prevDone = FALSE
    /\ serial = <<>>
    /\ last = [branch |-> "none"]

NextScraper == ScraperRun \/ ProcessSpeaker \/ ProcessEnd \/ Interrupt

Spec == Init /\ [][Next]_vars

SpecSocial == InitSocial /\ [][Next]_vars

SpecFail == InitFail /\ [][NextFail]_vars

SpecAdapters == InitAdapters /\ [][NextAdapters]_vars

SpecSkip == InitSkip /\ [][NextSkip]_vars

SpecTopics == InitTopics /\ [][NextTopics]_vars

SpecLocation == InitLocation /\ [][NextLocation]_vars

SpecCity == InitCity /\ [][Next]_vars

SpecMerge == InitMerge /\ [][Next]_vars

SpecCategories == InitCategories /\ [][NextCategories]_vars

SpecScraper == InitScraper /\ [][NextScraper]_vars

(***************************************************************************)
(* Properties                                                              *)
(***************************************************************************)
\* the documents of a collection
Records(coll) == {coll[k] : k \in 1..Len(coll)}

\* a document without its updated_at stamp
DataFields(rec) == [f \in DOMAIN rec \ {"updated_at"} |-> rec[f]]

\* a second run() call has ended after a first one that ran to its end
SecondRunDone == pc = "done" /\ prevDone

\* C1: when run() is executed a second time over the same source documents,
\* every data field of every canonical record has the value it had after
\* the first run
C1_FieldsIdempotent ==
    SecondRunDone =>
        {DataFields(r) : r \in Records(unified)} = {DataFields(r) : r \in Records(prev)}

\* C2: when run() is executed a second time over the same source documents,
\* the canonical collection holds as many records as after the first run
C2_CountIdempotent ==
    SecondRunDone => Len(unified) = Len(prev)

\* a second run has ended in which documents were decided NEW and MATCH
C2_Witness ==
    SecondRunDone /\ total_new > 0 /\ total_upd > 0 /\ Len(unified) >= 2

\* C3: a name or job_title of an existing canonical record that is not null
\* is never replaced by null
C3_NoRegression ==
    [][\A k \in 1..Len(unified) : \A f \in {"name", "job_title"} :
          unified[k][f] # None => unified'[k][f] # None]_vars

\* the score find_duplicate is meant to compute for a candidate against an
\* existing record: the similarity of the two names plus the city bonus
ScoreExceeds(cand, existing) ==
    LET r == fuzz_ratio(cand.name, existing.name)
        c1 == Get(cand.location, "city")
        c2 == Get(existing.location, "city")
        bonus == IF c1 # None /\ c2 # None /\ Lower(c1) = Lower(c2)
                 THEN CityBonus ELSE 0
    IN r.num + bonus * r.den > Threshold * r.den

\* C4: a candidate is decided MATCH only if the similarity between its name
\* and the name stored for the existing record, plus the city bonus when it
\* applies, exceeds 90
C4_MatchOnlyAboveThreshold ==
    last.branch = "match" => ScoreExceeds(last.cand, last.existing)

\* C5: at the end of run() the canonical collection is what it would be had
\* each queued operation been applied to the store at once, in decision order
C5_BatchingEquivalent ==
    pc = "done" => Records(unified) = Records(serial)

RECURSIVE NewIds(_, _, _)
\* the ids decided NEW by run() over the source documents from position k on
NewIds(k, index, ids) ==
    IF k > Len(docs) THEN ids
    ELSE LET u_doc == Transformer(docs[k])
             dup == find_duplicate(u_doc, index)
         IN IF dup.res = "none"
            THEN NewIds(k + 1,
                        IF u_doc.location.py = "None" THEN Touch(index, u_doc)
                        ELSE Register(index, u_doc),
                        ids \cup {u_doc._id})
            ELSE NewIds(k + 1, index, ids)

\* the number of records an uninterrupted run() over the source documents
\* leaves in an empty collection
UninterruptedCount == Cardinality(NewIds(1, <<>>, {}))

\* C6: when run() has ended, after any kills and restarts, the collection
\* holds no more records than an uninterrupted run would have produced
C6_RestartSafe ==
    pc = "done" => Len(unified) <= UninterruptedCount

\* a restarted run has ended that found records written by the killed run
C6_Witness ==
    pc = "done" /\ kills > 0 /\ total_upd > 0 /\ prev # <<>> /\ ~prevDone

\* C7: the _id of a canonical record never changes: a record keeps the _id
\* it has, and a record enters the collection with the _id derived from the
\* source tag and native id of the document that produced it
C7_IdStable ==
    [][/\ \A k \in 1..Len(unified) :
             k <= Len(unified') /\ unified'[k]._id = unified[k]._id
       /\ \A k \in (Len(unified) + 1)..Len(unified') :
             unified'[k]._id = sha_id(unified'[k].source_info.original_source,
                                      unified'[k].source_info.source_id)]_vars

\* a record created from an a_speakers document holds the fields of a
\* bigspeak document merged into it
C7_Witness ==
    \E k \in 1..Len(unified) :
        /\ unified[k]._id[1] = "a_speakers"
        /\ unified[k].source_info.original_source = "bigspeak"

\* C8: a candidate that took the NEW branch is registered in the identity
\* index under its fingerprint, with its id and city
C8_NewIsRegistered ==
    last.branch = "new" =>
        \E k \in 1..Len(Bucket(dedupe_idx, fingerprint_name(last.cand.name))) :
            Bucket(dedupe_idx, fingerprint_name(last.cand.name))[k] =
                [id |-> last.cand._id, city |-> Get(last.cand.location, "city")]

\* C9: a candidate whose name has an empty fingerprint is never decided MATCH
C9_EmptyFingerprintIsNew ==
    last.branch = "match" => fingerprint_name(last.cand.name) # <<>>

\* C10: the identity index holds no entry under the empty fingerprint
C10_NoEmptyFingerprintEntry ==
    Bucket(dedupe_idx, <<>>) = <<>>

\* the city of a candidate or of a canonical record, None when it has none
CityOf(rec) == Get(rec.location, "city")

\* both have a city and the two are equal ignoring case
SameCity(a, b) ==
    CityOf(a) # None /\ CityOf(b) # None /\ Lower(CityOf(a)) = Lower(CityOf(b))

\* both have a city and the two differ
OtherCity(a, b) ==
    CityOf(a) # None /\ CityOf(b) # None /\ Lower(CityOf(a)) # Lower(CityOf(b))

\* C11: a candidate is not decided NEW while the collection holds the record
\* of another document in the same city (ignoring case) whose name is so
\* similar that the similarity plus the bonus of 10 exceeds 90, also when the
\* two names differ in letters: it is decided MATCH with that record
C11_SameCityMatches ==
    last.branch = "new" =>
        \A k \in 1..Len(serial) :
            serial[k]._id # last.cand._id =>
                ~(SameCity(last.cand, serial[k]) /\ ScoreExceeds(last.cand, serial[k]))

\* C12: a candidate is not decided MATCH with a record of another city when
\* the similarity of the two names, without bonus, is below 90, also when
\* the two names have the same letters-only fingerprint
C12_OtherCityDistinct ==
    last.branch = "match" =>
        ~(/\ OtherCity(last.cand, last.existing)
          /\ LET r == fuzz_ratio(last.cand.name, last.existing.name)
             IN r.num < Threshold * r.den)

\* the score the loop of find_duplicate gives an index entry, times the
\* denominator of the ratio
entry_score(u_doc, c) ==
    LET score == fuzz_ratio(u_doc.name, u_doc.name)
        same == /\ c.city # None
                /\ CityOf(u_doc) # None
                /\ Lower(c.city) = Lower(CityOf(u_doc))
    IN score.num + (IF same THEN CityBonus ELSE 0) * score.den

\* C13: when several index entries share the candidate's fingerprint, the
\* id find_duplicate returns is that of an entry of the highest score, not
\* that of an entry of a lower score that comes earlier
C13_BestScoreWins ==
    last.branch = "match" =>
        LET cands == Bucket(dedupe_idx, fingerprint_name(last.cand.name))
        IN \A k, m \in 1..Len(cands) :
               cands[k].id = last.dup_id =>
                   entry_score(last.cand, cands[k]) >= entry_score(last.cand, cands[m])

\* C14: a write merges the nested object social_media key by key: a key an
\* existing canonical record holds with a non-null value is still in the
\* record's social_media, with a non-null value, after the write
C14_NestedMergedByKey ==
    [][\A k \in 1..Len(unified) :
          LET old == unified[k].social_media
          IN old.py = "dict" =>
                 \A p \in DOMAIN old \ {"py"} :
                     old[p] # None =>
                         /\ unified'[k].social_media.py = "dict"
                         /\ p \in DOMAIN unified'[k].social_media
                         /\ unified'[k].social_media[p] # None]_vars

\* C15: when run() has ended, the source_info of every canonical record is
\* that of the contributing document merged last in processing order (the
\* last candidate decided MATCH with it, or the document that created it),
\* also when several contributions were written in one batch
C15_SourceInfoOfLastMerged ==
    pc = "done" =>
        \A k \in 1..Len(unified) :
            LET m == Find(serial, unified[k]._id)
            IN m # 0 /\ unified[k].source_info = serial[m].source_info

\* position of a source in SRC_DATABASES, by its database name or by the tag
\* its adapter gives to sha_id
SrcPos(src) == IF src \in {"a_speakers"} THEN 1 ELSE 2

C17_UnmappedContained ==
    /\ ret.fn = "norm_topics" => ret.value.unmapped \subseteq ret.value.canon
    /\ \A k \in 1..Len(unified) :
           unified[k].topics_unmapped \subseteq unified[k].topics

\* a record with an unmapped topic next to a mapped one was updated by a
\* MATCH write
C17_Witness ==
    \E k \in 1..Len(unified) :
        /\ "updated_at" \in DOMAIN unified[k]
        /\ unified[k].topics_unmapped # {}
        /\ unified[k].topics # unified[k].topics_unmapped

\* the topics of the mapping file that list this variant
ListedUnder(variant) ==
    {k \in 1..Len(topic_map) :
        \E m \in 1..Len(topic_map[k].variants) :
            topic_map[k].variants[m] = variant}

\* C18: norm_topics of a list holding one variant of the mapping file, as it
\* is written in the file, returns the canonical topic the variant is listed
\* under as the only canonical topic, and an empty unmapped set
C18_TopicClosure ==
    (ret.fn = "norm_topics" /\ Len(arg.topics) = 1
        /\ ListedUnder(arg.topics[1]) # {}) =>
        /\ ret.value.unmapped = {}
        /\ \E k \in ListedUnder(arg.topics[1]) :
               ret.value.canon = {topic_map[k].target}

\* C19: neither set norm_topics returns holds the empty string: empty and
\* whitespace-only topics are ignored
C19_BlankIgnored ==
    ret.fn = "norm_topics" =>
        <<>> \notin ret.value.canon /\ <<>> \notin ret.value.unmapped

\* the positions of the commas of a string
Commas(loc) == {k \in 1..Len(loc) : loc[k] = ","}

\* the j-th of the parts the commas cut a string into
Part(loc, j) ==
    LET before == {k \in Commas(loc) : Cardinality({n \in Commas(loc) : n <= k}) = j - 1}
        after == {k \in Commas(loc) : Cardinality({n \in Commas(loc) : n <= k}) = j}
        from == IF before = {} THEN 1 ELSE (CHOOSE k \in before : TRUE) + 1
        to == IF after = {} THEN Len(loc) ELSE (CHOOSE k \in after : TRUE) - 1
    IN SubSeq(loc, from, to)

\* a string without the whitespace before its first and after its last
\* character that is not whitespace
Trimmed(p) ==
    LET inner == {k \in 1..Len(p) : p[k] \notin Whitespace}
    IN IF inner = {} THEN <<>>
       ELSE SubSeq(p, CHOOSE k \in inner : \A n \in inner : k <= n,
                      CHOOSE k \in inner : \A n \in inner : k >= n)

\* C20: parse_location on a non-empty string cuts it at the commas and trims
\* each part: three parts are city, state and country, two parts are city and
\* country with a null state, one part is the country with null city and
\* state; full_location is the string itself
C20_ParseLocationString ==
    (ret.fn = "parse_location" /\ arg.loc # <<>>) =>
        LET n == Cardinality(Commas(arg.loc)) + 1
            part(j) == Trimmed(Part(arg.loc, j))
            out == ret.value
        IN /\ out.full_location = arg.loc
           /\ n = 3 => /\ out.city = part(1)
                        /\ out.state = part(2)
                        /\ out.country = part(3)
           /\ n = 2 => /\ out.city = part(1)
                        /\ out.state = None
                        /\ out.country = part(2)
           /\ n = 1 => /\ out.city = None
                        /\ out.state = None
                        /\ out.country = part(1)

\* parse_location returned for a string of three parts, the first of which
\* had whitespace to trim
C20_Witness ==
    /\ ret.fn = "parse_location"
    /\ Cardinality(Commas(arg.loc)) = 2
    /\ ret.value.city # <<>>
    /\ ret.value.city # Part(arg.loc, 1)

\* the keys of the record parse_location is to return
LocationKeys == {"city", "state", "country", "full_location", "timezone"}

\* C21: parse_location on absent or empty input (None, the empty string,
\* the empty dict) returns the record with city, state, country,
\* full_location and timezone all present and null
C21_EmptyLocationAllNull ==
    (\/ ret.fn = "parse_location" /\ arg.loc = <<>>
     \/ ret.fn = "parse_location_object" /\ DOMAIN arg.obj = {"py"}) =>
        /\ LocationKeys \subseteq DOMAIN ret.value
        /\ \A key \in LocationKeys : ret.value[key] = None

\* C22: a source adapter never raises: for a native document with a nested
\* value that is null, missing or of the wrong type it returns None
C22_AdapterNeverRaises ==
    ret.fn = "adapter" => ret.out.res # "raise"

\* the latest document was skipped by the driver: the adapter returned None
\* or raised, find_duplicate raised, or the NEW branch raised
SkippedLast(l) ==
    \/ l.branch \in {"skip", "raise"}
    \/ l.branch = "new" /\ l.cand.location.py = "None"

\* C23: a document the driver skips does not end the loop, adds no operation
\* to the batch and changes neither the counter of new records nor the
\* counter of updated records
C23_SkipLeavesNoTrace ==
    [][(i' = i + 1 /\ SkippedLast(last')) =>
          /\ pc' = "loop"
          /\ bulk_ops' = bulk_ops
          /\ total_new' = total_new
          /\ total_upd' = total_upd]_vars

\* C24: a failed bulk write is never raised to the caller of run(), whether
\* it is the flush inside the loop or the flush after the last source
C24_WriteFailureNotRaised ==
    pc # "raised"

\* the number of times an operation was handed to bulk_write
TimesSent(op) == Cardinality({k \in 1..Len(sent) : sent[k] = op})

\* C28: after a flush inside the loop has failed, the buffer is below the
\* batch size again before the next document is queued, and no operation is
\* handed to the store more than once again
C28_FailedFlushRecovered ==
    /\ pc = "loop" => Len(bulk_ops) < BatchSize
    /\ \A k \in 1..Len(queued) : TimesSent(queued[k]) <= 2

C25_CountersExact ==
    pc = "done" =>
        /\ total_new = Len(unified) - Len(prev)
        /\ total_upd = Cardinality({k \in 1..Len(queued) : queued[k].kind = "set"})

\* the operations of the bulk write in progress the step executes
Executed == {bulk_ops[k] : k \in pending \ pending'}

\* C29: a write never changes the created_at of an existing canonical
\* record, and the upsert of a NEW decision whose id is already in the
\* collection changes no field of any record
C29_CreatedAtWrittenOnce ==
    [][/\ \A k \in 1..Len(unified) :
             unified'[k].created_at = unified[k].created_at
       /\ \A op \in Executed :
             (op.kind = "upsert" /\ Find(unified, op.id) # 0) => unified' = unified]_vars

\* run() has ended after the upsert of a NEW decision found its id in the
\* collection, in a record created at another time
C29_Witness ==
    /\ pc = "done"
    /\ \E j \in 1..Len(bulk_ops) :
          /\ bulk_ops[j].kind = "upsert"
          /\ Find(unified, bulk_ops[j].id) # 0
          /\ unified[Find(unified, bulk_ops[j].id)].created_at
                # bulk_ops[j].doc.created_at

\* C26: after merge_categories_and_topics has rewritten the collection, in
\* every record each string of topics_unmapped is also in topics, and each
\* topic of the record's previous topics and categories is in topics, as
\* itself or as the canonical topic it is a variation of
C26_MergeKeepsTopics ==
    pc = "merged" =>
        \A k \in 1..Len(unified) :
            /\ unified[k].topics_unmapped \subseteq unified[k].topics
            /\ \A t \in (DocGet(prev[k], "topics", {})
                           \cup DocGet(prev[k], "categories", {})) \ {<<>>} :
                   \/ t \in unified[k].topics
                   \/ /\ topic_lower(t) \in DOMAIN reverse_mapping
                      /\ reverse_mapping[topic_lower(t)] \in unified[k].topics

\* C30: when a session that restored a saved state has finished, it has
\* processed every speaker of the source collection that was not marked
\* completed when it started
C30_ResumeLosesNoSpeaker ==
    (spc = "finished" /\ restored) => todo \subseteq processed

====
